---- MODULE Spec2Model ----
(***************************************************************************)
(* Model of the planning cascade of aikido::robot::util (src/robot/util.cpp)*)
(* and of the waypoint container of path::PiecewiseLinearTrajectory.       *)
(*                                                                         *)
(* One caller runs one planning call at a time.  The call's frame (its     *)
(* arguments, locals and position) is the record f; skel is the live       *)
(* configuration of the skeleton and mutexOwner the owner of the           *)
(* skeleton's std::mutex.  Every step that touches the live configuration  *)
(* records in lastAccess whether the mutex was held at that moment.        *)
(*                                                                         *)
(* Time is counted in ticks.  Inside planToTSR the quotient                *)
(* timelimit / maxNumTrials has to be exact, so that call counts time in   *)
(* units of 1/maxNumTrials tick (f.den units per tick).                    *)
(***************************************************************************)
EXTENDS Integers, Sequences, FiniteSets, TLC

\* ---------------------------------------------------------------- bounds
MaxConfig == 1          \* skeleton configurations are 0..MaxConfig
MaxTime == 2            \* time limits handed to an entry point, in ticks
MaxGoals == 2           \* longest goalStates list of planToConfigurations
MaxExtraTrials == 2     \* the large maxNumTrials is maxSnapSamples + this
MaxDistance == 1        \* offset distances are -MaxDistance..MaxDistance
MaxWaypoints == 3       \* longest waypoint list of a trajectory
MaxWaypointTime == 3    \* waypoint times are 0..MaxWaypointTime

\* ------------------------------------------------------ program constants
maxSnapSamples == 100

\* ------------------------------------------------------------ value sets
Configs == 0 .. MaxConfig
NoConfig == -1
Caller == "caller"
NoThread == "none"

\* A goal state is described by how it can be reached from the start state:
\* by direct interpolation, only by a tree search, or not at all.
GoalKinds == {"snap", "tree", "none"}
NoGoal == "unset"

Null == [by |-> "null", goal |-> NoGoal]
Trajectory(stage, goal) == [by |-> stage, goal |-> goal]

TimeLimits == 0 .. MaxTime
\* planToTSR is called with no time at all or with the longest limit.
TSRTimeLimits == {0, MaxTime}
\* maxNumTrials below and above maxSnapSamples: with the small cap the
\* generator runs dry inside the Snap loop, with the large one after it.
TrialCaps == {1, maxSnapSamples + MaxExtraTrials}
Distances == (0 - MaxDistance) .. MaxDistance
\* A tolerance is zero or positive.
Tolerances == {0, 1}

\* Direction vectors with an integral Euclidean norm (so that normalising
\* them is exact in rational arithmetic), the zero vector included.
Directions ==
    { <<0, 0, 0>>, <<0, 0, 1>>, <<0, 0, -1>>, <<0, 0, 2>>,
      <<3, 4, 0>>, <<-3, -4, 0>> }

GoalLists ==
    UNION { [1 .. n -> GoalKinds] : n \in 0 .. MaxGoals }

Max(a, b) == IF a >= b THEN a ELSE b
Min(a, b) == IF a <= b THEN a ELSE b
Abs(a) == IF a < 0 THEN 0 - a ELSE a

\* -------------------------------------------------------------- variables
VARIABLES
    f,            \* the frame of the planning call (arguments, locals, pc)
    skel,         \* live configuration of the skeleton
    mutexOwner,   \* owner of robot->getMutex()
    lastAccess,   \* last access to the live configuration
    mWaypoints,   \* PiecewiseLinearTrajectory::mWaypoints
    dupAdded,     \* some addWaypoint call repeated a time already present
    lastLookup,   \* outcome of getWaypointIndexAfterTime, if called last
    lastEval,     \* outcome of evaluate(_t, _state), if called last
    rng           \* state of the caller's RNG, the object behind RNG* rng

vars == <<f, skel, mutexOwner, lastAccess, mWaypoints, dupAdded,
          lastLookup, lastEval, rng>>
plannerVars == <<f, skel, mutexOwner, lastAccess>>
trajVars == <<mWaypoints, dupAdded, lastLookup, lastEval>>

\* ------------------------------------------------------------ vectors
Dot(a, b) == a[1] * b[1] + a[2] * b[2] + a[3] * b[3]

\* Eigen's norm(): the square root of the squared norm (exact on Directions).
Norm(d) == CHOOSE n \in 0 .. Dot(d, d) : n * n = Dot(d, d)

Neg(d) == <<0 - d[1], 0 - d[2], 0 - d[3]>>

RECURSIVE GCD(_, _)
GCD(a, b) == IF b = 0 THEN Abs(a) ELSE GCD(Abs(b), Abs(a) % Abs(b))

\* Eigen's normalize(): the vector divided by its norm, kept as the reduced
\* fraction v / n.
Normalized(d) ==
    LET n == Norm(d)
        g == GCD(GCD(GCD(d[1], d[2]), d[3]), n)
    IN  [v |-> <<d[1] \div g, d[2] \div g, d[3] \div g>>, n |-> n \div g]

NegUnit(u) == [v |-> Neg(u.v), n |-> u.n]

\* ------------------------------------------------------------ the frame
\* The caller's RNG is seeded once, when it is constructed.
DefaultSeed == 0

IdleFrame ==
    [ pc |-> "idle", entry |-> "none",
      \* arguments
      goalStates |-> <<>>, timelimit |-> 0, maxNumTrials |-> 1,
      direction |-> <<0, 0, 0>>, distance |-> 0,
      negativeDistanceTolerance |-> 0, positiveDistanceTolerance |-> 0,
      positionTolerance |-> 0, angularTolerance |-> 0,
      \* scopes: the stack of state savers and the number of lock guards
      saved |-> <<>>, guards |-> 0,
      \* locals of planToTSR and of the top-level call
      den |-> 1, startState |-> NoConfig, goalState |-> NoGoal,
      trials |-> 0, snapSamples |-> 0, timerStarted |-> FALSE, elapsed |-> 0,
      fresh |-> FALSE, delegations |-> 0,
      \* the start state the last strategy planned from, the caller's RNG at
      \* entry, and the RNG states the samplers of the searches were cloned
      \* from
      plannedFrom |-> NoConfig, entryRng |-> DefaultSeed, seeds |-> {},
      \* locals of planToConfiguration / planToConfigurations
      cTimelimit |-> 0, cStartState |-> NoConfig, cGoalState |-> NoGoal,
      cResult |-> Null,
      \* what the call did
      entryConfig |-> NoConfig, result |-> Null, error |-> "none",
      snapTraj |-> Null, vfResult |-> Null, crrtResult |-> Null,
      snapCalls |-> 0, omplCalls |-> 0, vfCalls |-> 0, crrtCalls |-> 0,
      omplBudget |-> 0, spent |-> 0, stageFailed |-> FALSE,
      vfArgs |-> <<>>, tsrs |-> <<>> ]

NoAccess == [kind |-> "none", held |-> TRUE]

\* An access of the given kind to the live configuration, made now.
Access(kind) == [kind |-> kind, held |-> mutexOwner = Caller]

NoIndex == -1
NoLookup == [t |-> -1, status |-> "none", index |-> NoIndex]
NoEval == [t |-> -1, status |-> "none", lo |-> NoIndex, hi |-> NoIndex]

Init ==
    /\ f = IdleFrame
    /\ skel \in Configs
    /\ mutexOwner = NoThread
    /\ lastAccess = NoAccess
    /\ mWaypoints = <<>>
    /\ dupAdded = FALSE
    /\ lastLookup = NoLookup
    /\ lastEval = NoEval
    /\ rng = DefaultSeed

CanCall == f.pc = "idle"

\* The caller takes the result of a finished call; the frame is gone.
Returned ==
    /\ f.pc = "done"
    /\ f' = IdleFrame
    /\ UNCHANGED <<skel, mutexOwner, lastAccess, trajVars, rng>>

NewFrame(entry, pc) ==
    [IdleFrame EXCEPT !.entry = entry, !.pc = pc, !.entryConfig = skel,
                      !.entryRng = rng]

\* ------------------------------------------------ scoped lock and saver
\* std::lock_guard<std::mutex> lock(robot->getMutex()) on a free mutex.
LockFree == mutexOwner = NoThread

\* ~lock_guard: the mutex is released when the last guard of the call ends.
OwnerAfterUnlock(guards) == IF guards <= 1 THEN NoThread ELSE mutexOwner

\* ~MetaSkeletonStateSaver: the configuration the saver writes back.
RestoredConfigMissing(saved, current) == current

RestoredConfig(saved, current) == saved[Len(saved)]

\* ------------------------------------------------------------ strategies
\* planSnap: deterministic for a fixed goal.
planSnap(goal) ==
    IF goal = "snap" THEN Trajectory("snap", goal) ELSE Null

\* The outcomes <<trajectory, ticks consumed>> of a time-gated tree search
\* with the given budget.
TreeOutcomes(stage, goal, reachable, budget) ==
    { <<Null, d>> : d \in 0 .. Max(0, budget) }
      \cup (IF reachable /\ budget > 0
              THEN { <<Trajectory(stage, goal), d>> : d \in 0 .. budget }
              ELSE {})

\* A tree search can reach every goal that is reachable at all.
TreeReachable(goal) == goal \in {"snap", "tree"}

\* RNG::clone(): a generator of its own that starts in the state of the
\* original.
clone(r) == r

\* The state of a generator after the draws of one search.
Drawn(r) == r + 1

DrawsOnCaller(r) == Drawn(r)

\* util.cpp:126, 179: the sampler of the search owns rng->clone(); its
\* draws leave the caller's generator where it was.
CallerAfterDraws(r) == r

\* =================================================== planToConfiguration
\* util.cpp:85-134.  Also entered from planToTSR (util.cpp:278), which
\* passes its sampled goal state and the time slice.
Call_planToConfiguration ==
    /\ CanCall
    /\ \E goal \in GoalKinds, tl \in TimeLimits :
          f' = [NewFrame("planToConfiguration", "c_lock") EXCEPT
                   !.goalStates = <<goal>>, !.timelimit = tl,
                   !.cGoalState = goal, !.cTimelimit = tl]
    /\ lastAccess' = NoAccess
    /\ UNCHANGED <<skel, mutexOwner, trajVars, rng>>

planToConfiguration_lock ==
    /\ f.pc = "c_lock"
    /\ LockFree
    /\ mutexOwner' = Caller
    /\ f' = [f EXCEPT !.pc = "c_saver", !.guards = @ + 1]
    /\ UNCHANGED <<skel, lastAccess, trajVars, rng>>

planToConfiguration_saver ==
    /\ f.pc = "c_saver"
    /\ f' = [f EXCEPT !.pc = "c_start", !.saved = Append(@, skel)]
    /\ lastAccess' = Access("save")
    /\ UNCHANGED <<skel, mutexOwner, trajVars, rng>>

planToConfiguration_startState ==
    /\ f.pc = "c_start"
    /\ f' = [f EXCEPT !.pc = "c_snap", !.cStartState = skel]
    /\ lastAccess' = Access("read")
    /\ UNCHANGED <<skel, mutexOwner, trajVars, rng>>

\* util.cpp:116-118: where planToConfiguration goes after planSnap.
AfterSnapAlwaysSearch(traj) == "c_ompl"

AfterSnap(traj) == IF traj # Null THEN "c_restore" ELSE "c_ompl"

planToConfiguration_planSnap ==
    /\ f.pc = "c_snap"
    /\ LET traj == planSnap(f.cGoalState)
       IN  f' = [f EXCEPT !.pc = AfterSnap(traj),
                          !.plannedFrom = f.cStartState,
                          !.cResult = traj, !.snapTraj = traj,
                          !.snapCalls = @ + 1,
                          !.stageFailed = @ \/ traj = Null]
    /\ skel' \in Configs
    /\ lastAccess' = Access("strategy")
    /\ UNCHANGED <<mutexOwner, trajVars, rng>>

planToConfiguration_planOMPL ==
    /\ f.pc = "c_ompl"
    /\ \E o \in TreeOutcomes("ompl", f.cGoalState,
                             TreeReachable(f.cGoalState), f.cTimelimit) :
          f' = [f EXCEPT !.pc = "c_restore",
                         !.cResult = o[1],
                         !.omplCalls = @ + 1, !.omplBudget = f.cTimelimit,
                         !.spent = @ + o[2],
                         !.elapsed = IF f.timerStarted THEN @ + o[2] ELSE @,
                         !.plannedFrom = f.cStartState,
                         !.seeds = @ \cup {clone(rng)},
                         !.stageFailed = @ \/ o[1] = Null]
    /\ skel' \in Configs
    /\ rng' = CallerAfterDraws(rng)
    /\ lastAccess' = Access("strategy")
    /\ UNCHANGED <<mutexOwner, trajVars>>

planToConfiguration_restore ==
    /\ f.pc = "c_restore"
    /\ skel' = RestoredConfig(f.saved, skel)
    /\ f' = [f EXCEPT !.pc = "c_unlock",
                      !.saved = SubSeq(@, 1, Len(@) - 1)]
    /\ lastAccess' = Access("restore")
    /\ UNCHANGED <<mutexOwner, trajVars, rng>>

planToConfiguration_return ==
    /\ f.pc = "c_unlock"
    /\ mutexOwner' = OwnerAfterUnlock(f.guards)
    /\ f' = IF f.entry = "planToTSR"
              THEN [f EXCEPT !.pc = "t_check", !.guards = @ - 1]
              ELSE [f EXCEPT !.pc = "done", !.guards = @ - 1,
                             !.result = f.cResult]
    /\ UNCHANGED <<skel, lastAccess, trajVars, rng>>

\* ================================================== planToConfigurations
\* util.cpp:137-190.
Call_planToConfigurations ==
    /\ CanCall
    /\ \E goals \in GoalLists, tl \in TimeLimits :
          f' = [NewFrame("planToConfigurations", "m_lock") EXCEPT
                   !.goalStates = goals, !.timelimit = tl,
                   !.cTimelimit = tl]
    /\ lastAccess' = NoAccess
    /\ UNCHANGED <<skel, mutexOwner, trajVars, rng>>

planToConfigurations_lock ==
    /\ f.pc = "m_lock"
    /\ LockFree
    /\ mutexOwner' = Caller
    /\ f' = [f EXCEPT !.pc = "m_saver", !.guards = @ + 1]
    /\ UNCHANGED <<skel, lastAccess, trajVars, rng>>

planToConfigurations_saver ==
    /\ f.pc = "m_saver"
    /\ f' = [f EXCEPT !.pc = "m_start", !.saved = Append(@, skel)]
    /\ lastAccess' = Access("save")
    /\ UNCHANGED <<skel, mutexOwner, trajVars, rng>>

planToConfigurations_startState ==
    /\ f.pc = "m_start"
    /\ f' = [f EXCEPT !.pc = "m_loop", !.cStartState = skel]
    /\ lastAccess' = Access("read")
    /\ UNCHANGED <<skel, mutexOwner, trajVars, rng>>

\* util.cpp:155 and 189: the range-for takes the first goal state, or the
\* function returns nullptr when there is none.
planToConfigurations_loop ==
    /\ f.pc = "m_loop"
    /\ f' = IF Len(f.goalStates) >= 1
              THEN [f EXCEPT !.pc = "m_snap", !.cGoalState = f.goalStates[1]]
              ELSE [f EXCEPT !.pc = "m_restore", !.cResult = Null]
    /\ UNCHANGED <<skel, mutexOwner, lastAccess, trajVars, rng>>

\* util.cpp:161-171.
planToConfigurations_planSnap ==
    /\ f.pc = "m_snap"
    /\ LET traj == planSnap(f.cGoalState)
       IN  f' = [f EXCEPT !.pc = IF traj # Null THEN "m_restore" ELSE "m_ompl",
                          !.cResult = traj, !.snapTraj = traj,
                          !.snapCalls = @ + 1,
                          !.stageFailed = @ \/ traj = Null]
    /\ skel' \in Configs
    /\ lastAccess' = Access("strategy")
    /\ UNCHANGED <<mutexOwner, trajVars, rng>>

\* util.cpp:173-186: the search result is returned from inside the loop
\* body, whatever it is.
planToConfigurations_planOMPL ==
    /\ f.pc = "m_ompl"
    /\ \E o \in TreeOutcomes("ompl", f.cGoalState,
                             TreeReachable(f.cGoalState), f.cTimelimit) :
          f' = [f EXCEPT !.pc = "m_restore",
                         !.cResult = o[1],
                         !.omplCalls = @ + 1, !.omplBudget = f.cTimelimit,
                         !.spent = @ + o[2],
                         !.seeds = @ \cup {clone(rng)},
                         !.stageFailed = @ \/ o[1] = Null]
    /\ skel' \in Configs
    /\ rng' = CallerAfterDraws(rng)
    /\ lastAccess' = Access("strategy")
    /\ UNCHANGED <<mutexOwner, trajVars>>

planToConfigurations_restore ==
    /\ f.pc = "m_restore"
    /\ skel' = RestoredConfig(f.saved, skel)
    /\ f' = [f EXCEPT !.pc = "m_unlock",
                      !.saved = SubSeq(@, 1, Len(@) - 1)]
    /\ lastAccess' = Access("restore")
    /\ UNCHANGED <<mutexOwner, trajVars, rng>>

planToConfigurations_return ==
    /\ f.pc = "m_unlock"
    /\ mutexOwner' = OwnerAfterUnlock(f.guards)
    /\ f' = [f EXCEPT !.pc = "done", !.guards = @ - 1,
                      !.result = f.cResult]
    /\ UNCHANGED <<skel, lastAccess, trajVars, rng>>

\* ============================================================= planToTSR
\* util.cpp:193-291.
\* An IK sample of the TSR is a goal state that direct interpolation
\* reaches, or one that only a tree search may reach.
SampleKinds == {"snap", "tree"}

\* SampleGenerator::canSample(): false once maxNumTrials draws were made.
canSample(fr) == fr.trials < fr.maxNumTrials

\* util.cpp:222, in units of 1/den tick.
timelimitPerSample(fr) == (fr.timelimit * fr.den) \div fr.maxNumTrials

TimeSliceUnclamped(fr) == timelimitPerSample(fr)

\* util.cpp:284: the time slice handed to planToConfiguration.
TimeSlice(fr) ==
    Min(timelimitPerSample(fr), fr.timelimit * fr.den - fr.elapsed)

StateLeftByDraw(start, drawn) == drawn

\* util.cpp:245, 275: space->setState(metaSkeleton.get(), startState)
\* after a successful draw.
StateAfterDraw(start, drawn) == start

TrialsAfterFreeDraw(n) == n

\* SampleGenerator::sample(): every call uses up one trial.
TrialsAfterDraw(n) == n + 1

Call_planToTSR ==
    /\ CanCall
    /\ \E tl \in TSRTimeLimits, n \in TrialCaps :
          f' = [NewFrame("planToTSR", "t_init") EXCEPT
                   !.timelimit = tl, !.maxNumTrials = n, !.den = n]
    /\ lastAccess' = NoAccess
    /\ UNCHANGED <<skel, mutexOwner, trajVars, rng>>

\* util.cpp:204-222: the generator is created and the start state is read.
planToTSR_startState ==
    /\ f.pc = "t_init"
    /\ f' = [f EXCEPT !.pc = "t_saver", !.trials = 0, !.startState = skel]
    /\ lastAccess' = Access("read")
    /\ UNCHANGED <<skel, mutexOwner, trajVars, rng>>

\* util.cpp:225.
planToTSR_saver ==
    /\ f.pc = "t_saver"
    /\ f' = [f EXCEPT !.pc = "t_snaploop", !.saved = Append(@, skel),
                      !.snapSamples = 0]
    /\ lastAccess' = Access("save")
    /\ UNCHANGED <<skel, mutexOwner, trajVars, rng>>

\* util.cpp:233 and 237: the loop test, then the lock of the sampling block.
SnapLoopUnbounded(fr) == canSample(fr)

SnapLoopContinues(fr) == fr.snapSamples < maxSnapSamples /\ canSample(fr)

planToTSR_snapLoop ==
    /\ f.pc = "t_snaploop"
    /\ IF SnapLoopContinues(f)
         THEN /\ LockFree
              /\ mutexOwner' = Caller
              /\ f' = [f EXCEPT !.pc = "t_snap_sample", !.guards = @ + 1]
         ELSE /\ mutexOwner' = mutexOwner
              /\ f' = [f EXCEPT !.pc = "t_timer"]
    /\ UNCHANGED <<skel, lastAccess, trajVars, rng>>

\* util.cpp:239-240: a failed draw continues the loop.
FailedDrawThrows(fr) ==
    [fr EXCEPT !.pc = "t_restore", !.error = "sample_failed"]

FailedDraw(fr) == [fr EXCEPT !.pc = "t_snaploop"]

\* util.cpp:236-246, the locked block: the draw writes the skeleton; a
\* failed draw leaves the block and continues the loop, a successful one is
\* followed by setting the skeleton to the start state.  The lock ends with
\* the block either way.
planToTSR_snapSample ==
    /\ f.pc = "t_snap_sample"
    /\ mutexOwner' = OwnerAfterUnlock(f.guards)
    /\ \/ /\ f' = FailedDraw([f EXCEPT !.trials = TrialsAfterDraw(@),
                                       !.guards = @ - 1,
                                       !.stageFailed = TRUE])
          /\ skel' \in Configs
          /\ lastAccess' = Access("ik")
       \/ /\ \E g \in SampleKinds :
                f' = [f EXCEPT !.pc = "t_snap_plan", !.trials = TrialsAfterDraw(@),
                               !.guards = @ - 1, !.goalState = g,
                               !.fresh = TRUE]
          /\ \E drawn \in Configs :
                skel' = StateAfterDraw(f.startState, drawn)
          /\ lastAccess' = Access("set")
    /\ UNCHANGED <<trajVars, rng>>

\* util.cpp:247-259.
planToTSR_planSnap ==
    /\ f.pc = "t_snap_plan"
    /\ LET traj == planSnap(f.goalState)
       IN  f' = [f EXCEPT !.pc = IF traj # Null THEN "t_restore"
                                               ELSE "t_snaploop",
                          !.snapSamples = @ + 1,
                          !.snapCalls = @ + 1,
                          !.fresh = FALSE,
                          !.plannedFrom = f.startState,
                          !.snapTraj = traj,
                          !.result = traj,
                          !.stageFailed = @ \/ traj = Null]
    /\ skel' \in Configs
    /\ lastAccess' = Access("strategy")
    /\ UNCHANGED <<mutexOwner, trajVars, rng>>

\* util.cpp:262-264.
planToTSR_startTimer ==
    /\ f.pc = "t_timer"
    /\ f' = [f EXCEPT !.pc = "t_loop", !.timerStarted = TRUE, !.elapsed = 0]
    /\ UNCHANGED <<skel, mutexOwner, lastAccess, trajVars, rng>>

\* util.cpp:265 and 269, and 290 when the loop ends.
planToTSR_loop ==
    /\ f.pc = "t_loop"
    /\ IF f.elapsed < f.timelimit * f.den /\ canSample(f)
         THEN /\ LockFree
              /\ mutexOwner' = Caller
              /\ f' = [f EXCEPT !.pc = "t_sample", !.guards = @ + 1]
         ELSE /\ mutexOwner' = mutexOwner
              /\ f' = [f EXCEPT !.pc = "t_restore", !.result = Null,
                                !.stageFailed = TRUE]
    /\ UNCHANGED <<skel, lastAccess, trajVars, rng>>

\* util.cpp:267-276, the locked block.  The draw takes less than a tick, or
\* a tick; a failed draw continues the loop, a successful one is followed
\* by setting the skeleton to the start state.
planToTSR_sample ==
    /\ f.pc = "t_sample"
    /\ mutexOwner' = OwnerAfterUnlock(f.guards)
    /\ \E d \in {0, f.den} :
         \/ /\ f' = [f EXCEPT !.pc = "t_loop", !.trials = TrialsAfterDraw(@),
                              !.elapsed = @ + d,
                              !.guards = @ - 1, !.stageFailed = TRUE]
            /\ skel' \in Configs
            /\ lastAccess' = Access("ik")
         \/ /\ \E g \in SampleKinds :
                  f' = [f EXCEPT !.pc = "t_delegate", !.trials = TrialsAfterDraw(@),
                                 !.elapsed = @ + d,
                                 !.guards = @ - 1, !.goalState = g,
                                 !.fresh = TRUE]
            /\ \E drawn \in Configs :
                  skel' = StateAfterDraw(f.startState, drawn)
            /\ lastAccess' = Access("set")
    /\ UNCHANGED <<trajVars, rng>>

\* util.cpp:278-284: the call of planToConfiguration.
planToTSR_delegate ==
    /\ f.pc = "t_delegate"
    /\ f' = [f EXCEPT !.pc = "c_lock", !.cGoalState = f.goalState,
                      !.cTimelimit = TimeSlice(f),
                      !.delegations = @ + 1, !.fresh = FALSE]
    /\ UNCHANGED <<skel, mutexOwner, lastAccess, trajVars, rng>>

\* util.cpp:286-287.
planToTSR_check ==
    /\ f.pc = "t_check"
    /\ f' = IF f.cResult # Null
              THEN [f EXCEPT !.pc = "t_restore", !.result = f.cResult]
              ELSE [f EXCEPT !.pc = "t_loop"]
    /\ UNCHANGED <<skel, mutexOwner, lastAccess, trajVars, rng>>

\* The saver of util.cpp:225 ends with the function.
planToTSR_return ==
    /\ f.pc = "t_restore"
    /\ skel' = RestoredConfig(f.saved, skel)
    /\ lastAccess' = Access("restore")
    /\ f' = [f EXCEPT !.pc = "done", !.saved = SubSeq(@, 1, Len(@) - 1)]
    /\ UNCHANGED <<mutexOwner, trajVars, rng>>

\* ===================================== planToTSRwithTrajectoryConstraint
\* util.cpp:294-383.  Also entered from planToEndEffectorOffsetByCRRT
\* (util.cpp:483).
Call_planToTSRwithTrajectoryConstraint ==
    /\ CanCall
    /\ \E tl \in TimeLimits :
          f' = [NewFrame("planToTSRwithTrajectoryConstraint", "k_lock")
                   EXCEPT !.timelimit = tl]
    /\ lastAccess' = NoAccess
    /\ UNCHANGED <<skel, mutexOwner, trajVars, rng>>

\* util.cpp:315-316 on a free mutex.
planToTSRwithTrajectoryConstraint_lock ==
    /\ f.pc = "k_lock"
    /\ LockFree
    /\ mutexOwner' = Caller
    /\ f' = [f EXCEPT !.pc = "k_saver", !.guards = @ + 1]
    /\ UNCHANGED <<skel, lastAccess, trajVars, rng>>

\* util.cpp:315-316 on a mutex the calling thread already owns: locking a
\* std::mutex twice from one thread is undefined.  The builds differ: the
\* thread blocks for ever (a normal pthread mutex), std::system_error is
\* thrown (an error-checking mutex reports EDEADLK), or the lock call does
\* nothing and the call goes on (a program without thread support).
planToTSRwithTrajectoryConstraint_relock ==
    /\ f.pc = "k_lock"
    /\ mutexOwner = Caller
    /\ \/ f' = [f EXCEPT !.pc = "blocked"]
       \/ f' = [f EXCEPT !.pc = "o_restore", !.error = "system_error"]
       \/ f' = [f EXCEPT !.pc = "k_saver", !.guards = @ + 1]
    /\ UNCHANGED <<skel, mutexOwner, lastAccess, trajVars, rng>>

\* util.cpp:318-320.
planToTSRwithTrajectoryConstraint_saver ==
    /\ f.pc = "k_saver"
    /\ f' = [f EXCEPT !.pc = "k_start", !.saved = Append(@, skel)]
    /\ lastAccess' = Access("save")
    /\ UNCHANGED <<skel, mutexOwner, trajVars, rng>>

\* util.cpp:322-361: the constraints are built, the start state is read.
planToTSRwithTrajectoryConstraint_startState ==
    /\ f.pc = "k_start"
    /\ f' = [f EXCEPT !.pc = "k_plan", !.startState = skel]
    /\ lastAccess' = Access("read")
    /\ UNCHANGED <<skel, mutexOwner, trajVars, rng>>

\* util.cpp:363-382.
planToTSRwithTrajectoryConstraint_planCRRTConnect ==
    /\ f.pc = "k_plan"
    /\ \E o \in TreeOutcomes("crrt", "tsr", TRUE, f.timelimit) :
          f' = [f EXCEPT !.pc = "k_restore",
                         !.crrtResult = o[1],
                         !.crrtCalls = @ + 1,
                         !.spent = @ + o[2],
                         !.stageFailed = @ \/ o[1] = Null]
    /\ skel' \in Configs
    /\ lastAccess' = Access("strategy")
    /\ UNCHANGED <<mutexOwner, trajVars, rng>>

planToTSRwithTrajectoryConstraint_restore ==
    /\ f.pc = "k_restore"
    /\ skel' = RestoredConfig(f.saved, skel)
    /\ f' = [f EXCEPT !.pc = "k_unlock",
                      !.saved = SubSeq(@, 1, Len(@) - 1)]
    /\ lastAccess' = Access("restore")
    /\ UNCHANGED <<mutexOwner, trajVars, rng>>

\* The lock of util.cpp:316 ends; planToEndEffectorOffsetByCRRT returns the
\* trajectory as it is (util.cpp:493).
planToTSRwithTrajectoryConstraint_return ==
    /\ f.pc = "k_unlock"
    /\ mutexOwner' = OwnerAfterUnlock(f.guards)
    /\ f' = [f EXCEPT !.pc = IF f.entry = "planToEndEffectorOffset"
                               THEN "o_restore" ELSE "done",
                      !.guards = @ - 1,
                      !.result = f.crrtResult]
    /\ UNCHANGED <<skel, lastAccess, trajVars, rng>>

\* ========================================= planToEndEffectorOffsetByCRRT
\* util.cpp:441-494 and getGoalAndConstraintTSRForEndEffectorOffset
\* (util.cpp:513-547).
\* The goal and constraint TSRs for a unit direction u and a distance: the
\* frame w looks along u, the goal lies at the distance along its z axis.
getGoalAndConstraintTSRForEndEffectorOffset(u, distance, posTol, angTol) ==
    [ goal |->
        [ z |-> u, offset |-> distance,
          Bw |-> << <<0, 0>>, <<0, 0>>, <<0, 0>>,
                    <<0, 0>>, <<0, 0>>, <<0, 0>> >> ],
      constraint |->
        [ z |-> u, offset |-> 0,
          Bw |-> << <<0 - posTol, posTol>>, <<0 - posTol, posTol>>,
                    <<0, distance>>,
                    <<0 - angTol, angTol>>, <<0 - angTol, angTol>>,
                    <<0 - angTol, angTol>> >> ] ]

Unflipped(distance) == distance

\* util.cpp:465: distance = -distance.
Flipped(distance) == 0 - distance

\* util.cpp:459-478: normalise, flip a negative distance, build the TSRs.
OffsetTSRs(direction, distance, posTol, angTol) ==
    LET directionCopy == Normalized(direction)
    IN  IF distance < 0
          THEN getGoalAndConstraintTSRForEndEffectorOffset(
                   NegUnit(directionCopy), Flipped(distance), posTol, angTol)
          ELSE getGoalAndConstraintTSRForEndEffectorOffset(
                   directionCopy, distance, posTol, angTol)

Call_planToEndEffectorOffsetByCRRT ==
    /\ CanCall
    /\ \E d \in Directions, x \in Distances, tl \in TimeLimits,
          pt \in Tolerances, at \in Tolerances :
          f' = [NewFrame("planToEndEffectorOffsetByCRRT", "b_check") EXCEPT
                   !.direction = d, !.distance = x, !.timelimit = tl,
                   !.positionTolerance = pt, !.angularTolerance = at]
    /\ lastAccess' = NoAccess
    /\ UNCHANGED <<skel, mutexOwner, trajVars, rng>>

\* util.cpp:453-457.  The exception leaves planToEndEffectorOffset through
\* its saver and lock when that function is the caller.
planToEndEffectorOffsetByCRRT_check ==
    /\ f.pc = "b_check"
    /\ f' = IF Norm(f.direction) = 0
              THEN [f EXCEPT !.error = "zero_direction",
                             !.pc = IF f.entry = "planToEndEffectorOffset"
                                      THEN "o_restore" ELSE "done"]
              ELSE [f EXCEPT !.pc = "b_tsr"]
    /\ UNCHANGED <<skel, mutexOwner, lastAccess, trajVars, rng>>

\* util.cpp:459-481: the TSRs are built around the end effector's current
\* world transform, which is read from the live skeleton.
planToEndEffectorOffsetByCRRT_tsr ==
    /\ f.pc = "b_tsr"
    /\ f' = [f EXCEPT !.pc = "k_lock",
                      !.tsrs = << OffsetTSRs(f.direction, f.distance,
                                             f.positionTolerance,
                                             f.angularTolerance) >>]
    /\ lastAccess' = Access("transform")
    /\ UNCHANGED <<skel, mutexOwner, trajVars, rng>>

\* =============================================== planToEndEffectorOffset
\* util.cpp:386-438.
\* util.cpp:406-416: what the vector-field stage is handed.
VectorFieldArgs(direction, distance, negTol, posTol) ==
    [ direction |-> direction,
      minDistance |-> distance - negTol,
      maxDistance |-> distance + posTol ]

Call_planToEndEffectorOffset ==
    /\ CanCall
    /\ \E d \in Directions, x \in Distances, tl \in TimeLimits,
          nt \in Tolerances, pt \in Tolerances,
          post \in Tolerances, angt \in Tolerances :
          f' = [NewFrame("planToEndEffectorOffset", "o_lock") EXCEPT
                   !.direction = d, !.distance = x, !.timelimit = tl,
                   !.negativeDistanceTolerance = nt,
                   !.positiveDistanceTolerance = pt,
                   !.positionTolerance = post, !.angularTolerance = angt]
    /\ lastAccess' = NoAccess
    /\ UNCHANGED <<skel, mutexOwner, trajVars, rng>>

planToEndEffectorOffset_lock ==
    /\ f.pc = "o_lock"
    /\ LockFree
    /\ mutexOwner' = Caller
    /\ f' = [f EXCEPT !.pc = "o_saver", !.guards = @ + 1]
    /\ UNCHANGED <<skel, lastAccess, trajVars, rng>>

planToEndEffectorOffset_saver ==
    /\ f.pc = "o_saver"
    /\ f' = [f EXCEPT !.pc = "o_vf", !.saved = Append(@, skel)]
    /\ lastAccess' = Access("save")
    /\ UNCHANGED <<skel, mutexOwner, trajVars, rng>>

\* util.cpp:406-427: the vector-field stage; its trajectory is returned,
\* otherwise planToEndEffectorOffsetByCRRT is called.
planToEndEffectorOffset_vectorField ==
    /\ f.pc = "o_vf"
    /\ \E o \in TreeOutcomes("vf", "offset", TRUE, f.timelimit) :
          f' = [f EXCEPT !.pc = IF o[1] # Null THEN "o_restore"
                                                ELSE "b_check",
                         !.vfArgs = << VectorFieldArgs(
                                          f.direction, f.distance,
                                          f.negativeDistanceTolerance,
                                          f.positiveDistanceTolerance) >>,
                         !.vfResult = o[1],
                         !.result = o[1],
                         !.vfCalls = @ + 1,
                         !.spent = @ + o[2]]
    /\ skel' \in Configs
    /\ lastAccess' = Access("strategy")
    /\ UNCHANGED <<mutexOwner, trajVars, rng>>

planToEndEffectorOffset_restore ==
    /\ f.pc = "o_restore"
    /\ skel' = RestoredConfig(f.saved, skel)
    /\ f' = [f EXCEPT !.pc = "o_unlock",
                      !.saved = SubSeq(@, 1, Len(@) - 1)]
    /\ lastAccess' = Access("restore")
    /\ UNCHANGED <<mutexOwner, trajVars, rng>>

planToEndEffectorOffset_return ==
    /\ f.pc = "o_unlock"
    /\ mutexOwner' = OwnerAfterUnlock(f.guards)
    /\ f' = [f EXCEPT !.pc = "done", !.guards = @ - 1]
    /\ UNCHANGED <<skel, lastAccess, trajVars, rng>>

\* ============================================ PiecewiseLinearTrajectory
\* PiecewiseLinearTrajectory.hpp:72-73, Waypoint::operator<(const double&).
WaypointAfter(w, t) == w.t > t

WaypointLess(w, t) == w.t < t

\* The position at which std::lower_bound puts the time t: the first index
\* whose waypoint is not less than t, or one past the end.
LowerBound(ws, t) ==
    IF \E i \in 1 .. Len(ws) : ~WaypointLess(ws[i], t)
      THEN CHOOSE i \in 1 .. Len(ws) :
              /\ ~WaypointLess(ws[i], t)
              /\ \A j \in 1 .. i - 1 : WaypointLess(ws[j], t)
      ELSE Len(ws) + 1

InsertAt(ws, i, w) ==
    SubSeq(ws, 1, i - 1) \o <<w>> \o SubSeq(ws, i, Len(ws))

\* Two states a waypoint can hold: enough to tell waypoints of equal time
\* apart.
WaypointStates == {0, 1}

\* PiecewiseLinearTrajectory.hpp:22-27.
addWaypoint ==
    /\ Len(mWaypoints) < MaxWaypoints
    /\ \E t \in 0 .. MaxWaypointTime, state \in WaypointStates :
          /\ mWaypoints' = InsertAt(mWaypoints, LowerBound(mWaypoints, t),
                                    [t |-> t, state |-> state])
          /\ dupAdded' = (dupAdded
                            \/ \E i \in 1 .. Len(mWaypoints) :
                                  mWaypoints[i].t = t)
    /\ lastLookup' = NoLookup
    /\ lastEval' = NoEval
    /\ UNCHANGED <<plannerVars, rng>>

\* Times at which the trajectory is queried: every waypoint time and one
\* time past the latest.
QueryTimes == 0 .. MaxWaypointTime + 1

WaypointReaches(w, t) == w.t >= t

WaypointExceeds(w, t) == w.t > t

\* PiecewiseLinearTrajectory.hpp:79-82.  The index (from 0) of the first
\* waypoint whose time is larger than t; NoIndex stands for the thrown
\* std::domain_error when there is none.
getWaypointIndexAfterTime(ws, t) ==
    IF \E i \in 1 .. Len(ws) : WaypointExceeds(ws[i], t)
      THEN (CHOOSE i \in 1 .. Len(ws) :
               /\ WaypointExceeds(ws[i], t)
               /\ \A j \in 1 .. i - 1 : ~WaypointExceeds(ws[j], t)) - 1
      ELSE NoIndex

Call_getWaypointIndexAfterTime ==
    /\ Len(mWaypoints) > 0
    /\ \E t \in QueryTimes :
          LET idx == getWaypointIndexAfterTime(mWaypoints, t)
          IN  lastLookup' = [t |-> t,
                             status |-> IF idx = NoIndex THEN "domain_error"
                                                         ELSE "ok",
                             index |-> idx]
    /\ lastEval' = NoEval
    /\ UNCHANGED <<mWaypoints, dupAdded>>
    /\ UNCHANGED <<plannerVars, rng>>

DomainError(t) == [t |-> t, status |-> "domain_error",
                   lo |-> NoIndex, hi |-> NoIndex]

AtEndNever(ws, t) == FALSE

\* The end of the trajectory is answered from the last waypoint alone.
AtEnd(ws, t) == t = ws[Len(ws)].t

\* PiecewiseLinearTrajectory.hpp:56-58.  lo and hi are the indices (from 0)
\* of the waypoints the state is interpolated between.
evaluate(ws, t) ==
    IF t < ws[1].t \/ t > ws[Len(ws)].t
      THEN DomainError(t)
      ELSE IF AtEnd(ws, t)
        THEN [t |-> t, status |-> "ok",
              lo |-> Len(ws) - 1, hi |-> Len(ws) - 1]
        ELSE LET idx == getWaypointIndexAfterTime(ws, t)
             IN  IF idx = NoIndex
                   THEN DomainError(t)
                   ELSE [t |-> t, status |-> "ok",
                         lo |-> idx - 1, hi |-> idx]

Call_evaluate ==
    /\ Len(mWaypoints) > 0
    /\ \E t \in QueryTimes : lastEval' = evaluate(mWaypoints, t)
    /\ lastLookup' = NoLookup
    /\ UNCHANGED <<mWaypoints, dupAdded>>
    /\ UNCHANGED <<plannerVars, rng>>

\* ======================================================= specifications
Next ==
    \/ Call_planToConfiguration
    \/ planToConfiguration_lock
    \/ planToConfiguration_saver
    \/ planToConfiguration_startState
    \/ planToConfiguration_planSnap
    \/ planToConfiguration_planOMPL
    \/ planToConfiguration_restore
    \/ planToConfiguration_return
    \/ Call_planToConfigurations
    \/ planToConfigurations_lock
    \/ planToConfigurations_saver
    \/ planToConfigurations_startState
    \/ planToConfigurations_loop
    \/ planToConfigurations_planSnap
    \/ planToConfigurations_planOMPL
    \/ planToConfigurations_restore
    \/ planToConfigurations_return
    \/ Call_planToTSR
    \/ planToTSR_startState
    \/ planToTSR_saver
    \/ planToTSR_snapLoop
    \/ planToTSR_snapSample
    \/ planToTSR_planSnap
    \/ planToTSR_startTimer
    \/ planToTSR_loop
    \/ planToTSR_sample
    \/ planToTSR_delegate
    \/ planToTSR_check
    \/ planToTSR_return
    \/ Call_planToTSRwithTrajectoryConstraint
    \/ planToTSRwithTrajectoryConstraint_lock
    \/ planToTSRwithTrajectoryConstraint_relock
    \/ planToTSRwithTrajectoryConstraint_saver
    \/ planToTSRwithTrajectoryConstraint_startState
    \/ planToTSRwithTrajectoryConstraint_planCRRTConnect
    \/ planToTSRwithTrajectoryConstraint_restore
    \/ planToTSRwithTrajectoryConstraint_return
    \/ Call_planToEndEffectorOffsetByCRRT
    \/ planToEndEffectorOffsetByCRRT_check
    \/ planToEndEffectorOffsetByCRRT_tsr
    \/ Call_planToEndEffectorOffset
    \/ planToEndEffectorOffset_lock
    \/ planToEndEffectorOffset_saver
    \/ planToEndEffectorOffset_vectorField
    \/ planToEndEffectorOffset_restore
    \/ planToEndEffectorOffset_return
    \/ Returned

Spec == Init /\ [][Next]_vars

\* planToTSR alone, with the planToConfiguration calls it delegates to.  The
\* caller's thread keeps running: a step that can be taken is taken.
NextTSR ==
    \/ Call_planToTSR
    \/ planToTSR_startState
    \/ planToTSR_saver
    \/ planToTSR_snapLoop
    \/ planToTSR_snapSample
    \/ planToTSR_planSnap
    \/ planToTSR_startTimer
    \/ planToTSR_loop
    \/ planToTSR_sample
    \/ planToTSR_delegate
    \/ planToConfiguration_lock
    \/ planToConfiguration_saver
    \/ planToConfiguration_startState
    \/ planToConfiguration_planSnap
    \/ planToConfiguration_planOMPL
    \/ planToConfiguration_restore
    \/ planToConfiguration_return
    \/ planToTSR_check
    \/ planToTSR_return
    \/ Returned

SpecTSR == Init /\ [][NextTSR]_vars /\ WF_vars(NextTSR)

NextTrajectory ==
    \/ addWaypoint
    \/ Call_getWaypointIndexAfterTime
    \/ Call_evaluate

SpecTrajectory == Init /\ [][NextTrajectory]_vars

\* ================================================================ claims
\* A stage of the call produced a trajectory.
Found ==
    \/ f.snapTraj # Null
    \/ f.cResult # Null
    \/ f.vfResult # Null
    \/ f.crrtResult # Null

\* C1: in planToConfiguration and planToConfigurations, once planSnap has
\* returned a trajectory for the goal, planOMPL is not reached and has not
\* been invoked in the call, and the value returned is that trajectory.
C1_SnapReturnedWithoutSearch ==
    (/\ f.entry \in {"planToConfiguration", "planToConfigurations"}
     /\ f.snapTraj # Null)
      => /\ f.omplCalls = 0
         /\ f.pc \notin {"c_ompl", "m_ompl"}
         /\ f.cResult = f.snapTraj
         /\ f.pc = "done" => f.result = f.snapTraj

C1_Witness ==
    /\ f.pc = "done"
    /\ f.entry = "planToConfiguration"
    /\ f.snapCalls = 1
    /\ f.snapTraj # Null
    /\ f.result = f.snapTraj

\* C2: when a planning call of any entry point has returned to its caller,
\* with a trajectory, with null or by an exception, the live configuration
\* of the skeleton is the one it had when the call was entered.
C2_ConfigurationRestored ==
    f.pc = "done" => skel = f.entryConfig

C2_Witness ==
    /\ f.pc = "done"
    /\ f.entry = "planToEndEffectorOffset"
    /\ f.error = "zero_direction"
    /\ f.vfCalls = 1
    /\ lastAccess.kind = "restore"

\* C3: every access of a planning call to the live configuration is made
\* while the calling thread holds the skeleton's mutex.
C3_AccessUnderLock ==
    lastAccess.held

\* C4: in planToEndEffectorOffset (with a non-zero direction), when the
\* vector-field stage has returned no trajectory the call ends having run
\* the CRRT stage once and returns its result; when it has returned a
\* trajectory, that is returned and the CRRT stage is not invoked.
C4_FallbackToCRRT ==
    (/\ f.entry = "planToEndEffectorOffset"
     /\ f.vfCalls = 1
     /\ Norm(f.direction) # 0
     /\ f.pc \in {"done", "blocked"})
      => IF f.vfResult = Null
           THEN /\ f.pc = "done"
                /\ f.error = "none"
                /\ f.crrtCalls = 1
                /\ f.result = f.crrtResult
           ELSE /\ f.crrtCalls = 0
                /\ f.result = f.vfResult

\* C5: the time consumed by the time-gated stages of one planning call
\* never exceeds the call's timelimit by more than one tick.
C5_SharedBudget ==
    f.spent <= (f.timelimit + 1) * f.den

\* C6: planToConfigurations returns a trajectory whenever some goal state
\* of the list is reachable by Snap.
C6_SomeGoalReached ==
    (/\ f.entry = "planToConfigurations"
     /\ f.pc = "done"
     /\ \E i \in 1 .. Len(f.goalStates) : f.goalStates[i] = "snap")
      => f.result # Null

\* C7: with a zero-length direction, planToEndEffectorOffset and
\* planToEndEffectorOffsetByCRRT run no planning stage, and end by raising
\* the zero-direction error.
C7_ZeroDirectionFirst ==
    (/\ f.entry \in {"planToEndEffectorOffset",
                     "planToEndEffectorOffsetByCRRT"}
     /\ Norm(f.direction) = 0)
      => /\ f.vfCalls = 0
         /\ f.crrtCalls = 0
         /\ f.pc = "done" => f.error = "zero_direction"

\* C8: planToEndEffectorOffset with a negative distance hands every stage
\* what the call with the opposite direction and the positive distance
\* hands it: the same direction and distance window to the vector-field
\* stage, the same goal and constraint TSRs to the CRRT stage.
C8_OffsetCanonical ==
    (/\ f.entry = "planToEndEffectorOffset"
     /\ f.distance < 0
     /\ Norm(f.direction) # 0)
      => /\ Len(f.vfArgs) = 1 =>
              f.vfArgs[1] = VectorFieldArgs(Neg(f.direction), 0 - f.distance,
                                            f.negativeDistanceTolerance,
                                            f.positiveDistanceTolerance)
         /\ Len(f.tsrs) = 1 =>
              f.tsrs[1] = OffsetTSRs(Neg(f.direction), 0 - f.distance,
                                     f.positionTolerance, f.angularTolerance)

\* C9: a call in which an IK draw failed, a Snap attempt was infeasible, a
\* tree search gave up or the sample generator ran dry does not end with an
\* error; it returns null exactly when no stage produced a trajectory.
C9_FailuresAbsorbed ==
    (f.pc = "done" /\ f.stageFailed)
      => /\ f.error = "none"
         /\ (f.result = Null) <=> ~Found

C9_Witness ==
    /\ f.pc = "done"
    /\ f.entry = "planToTSR"
    /\ f.stageFailed
    /\ f.trials > f.snapSamples
    /\ f.omplCalls >= 1
    /\ f.result = Null

C11_EvaluateDomain ==
    lastEval.status # "none" =>
      LET ws == mWaypoints
          t  == lastEval.t
      IN  /\ (lastEval.status = "ok")
                <=> (ws[1].t <= t /\ t <= ws[Len(ws)].t)
          /\ (lastEval.status # "ok") => lastEval.status = "domain_error"
          /\ lastEval.status = "ok" =>
                /\ 0 <= lastEval.lo
                /\ lastEval.lo <= lastEval.hi
                /\ lastEval.hi <= Len(ws) - 1
                /\ ws[lastEval.lo + 1].t <= t
                /\ t <= ws[lastEval.hi + 1].t

C11_Witness ==
    /\ Len(mWaypoints) >= 2
    /\ mWaypoints[1].t < mWaypoints[Len(mWaypoints)].t
    /\ lastEval.t = mWaypoints[Len(mWaypoints)].t
    /\ lastEval.status = "ok"

TSRFound ==
    /\ f.entry = "planToTSR"
    /\ (f.snapTraj # Null \/ f.cResult # Null)

C12_Order ==
    f.entry = "planToTSR" =>
      /\ f.snapSamples <= maxSnapSamples
      /\ f.pc \in {"t_snap_plan", "t_delegate"} => f.fresh
      /\ f.pc = "t_snap_plan" => (~f.timerStarted /\ f.delegations = 0)
      /\ (f.timerStarted \/ f.delegations > 0) =>
            (f.snapSamples = maxSnapSamples \/ ~canSample(f))
      /\ f.delegations > 0 => f.timerStarted
      /\ (f.snapTraj # Null /\ f.delegations = 0) => ~f.timerStarted
      /\ TSRFound =>
            /\ f.pc \in {"c_restore", "c_unlock", "t_check", "t_restore",
                          "done"}
            /\ f.pc = "done" =>
                  f.result = (IF f.delegations = 0 THEN f.snapTraj
                                                   ELSE f.cResult)

C12_Frozen ==
    TSRFound =>
      \/ f'.pc = "idle"
      \/ /\ f'.trials = f.trials
         /\ f'.snapSamples = f.snapSamples
         /\ f'.snapCalls = f.snapCalls
         /\ f'.omplCalls = f.omplCalls
         /\ f'.delegations = f.delegations

\* C12: in planToTSR at most maxSnapSamples Snap attempts are made in the
\* first loop, each on a freshly drawn sample; planToConfiguration is
\* delegated to only after that loop has ended (its count reached or the
\* generator dry) with no trajectory; and once a Snap attempt or a
\* delegation has produced a trajectory, that trajectory is the result and
\* no further sample is drawn and no further strategy is invoked.
C12_SnapThenDelegate == [](C12_Order) /\ [][C12_Frozen]_vars

C12_Witness ==
    /\ f.pc = "done"
    /\ f.entry = "planToTSR"
    /\ f.snapSamples = maxSnapSamples
    /\ f.delegations >= 1
    /\ f.result # Null

\* C13: the sampling search of planToConfiguration, called directly or
\* from planToTSR's second loop, runs only after Snap failed and never
\* starts with a time budget that is zero or negative.
C13_PositiveBudget ==
    (/\ f.entry \in {"planToConfiguration", "planToTSR"}
     /\ f.omplCalls > 0)
      => (f.omplBudget > 0 /\ f.snapCalls > 0)

\* C14: every time slice planToTSR hands to planToConfiguration is the
\* smaller of timelimit / maxNumTrials and timelimit minus the time elapsed
\* on the second loop's timer when the call is made; so it exceeds neither.
\* Times are in units of 1/den tick.
C14_SliceIsMin ==
    (f.entry = "planToTSR" /\ f.pc = "c_lock") =>
      LET share     == (f.timelimit * f.den) \div f.maxNumTrials
          remaining == f.timelimit * f.den - f.elapsed
      IN  /\ f.timerStarted
          /\ f.cTimelimit = (IF share <= remaining THEN share ELSE remaining)
          /\ f.cTimelimit <= share
          /\ f.cTimelimit <= remaining

C14_Witness ==
    /\ f.entry = "planToTSR"
    /\ f.pc = "c_lock"
    /\ f.delegations = 2
    /\ f.elapsed > 0
    /\ f.cTimelimit < (f.timelimit * f.den) \div f.maxNumTrials

\* C16: for a non-zero direction, any distance and non-negative position
\* and angular tolerances, the TSRs planToEndEffectorOffsetByCRRT builds
\* have min <= max on each of the six axes of Bw; the goal bounds are all
\* zero-width, the constraint bounds are [-posTol, posTol] on the two axes
\* orthogonal to travel, [0, |distance|] along travel and
\* [-angTol, angTol] on the three rotational axes.
C16_BoundsOrdered ==
    Len(f.tsrs) = 1 =>
      LET goal       == f.tsrs[1].goal.Bw
          constraint == f.tsrs[1].constraint.Bw
          posTol     == f.positionTolerance
          angTol     == f.angularTolerance
      IN  /\ \A a \in 1 .. 6 :
                /\ goal[a][1] <= goal[a][2]
                /\ constraint[a][1] <= constraint[a][2]
                /\ goal[a] = <<0, 0>>
          /\ constraint[1] = <<0 - posTol, posTol>>
          /\ constraint[2] = <<0 - posTol, posTol>>
          /\ constraint[3] = <<0, Abs(f.distance)>>
          /\ \A a \in 4 .. 6 : constraint[a] = <<0 - angTol, angTol>>

C16_Witness ==
    /\ f.entry = "planToEndEffectorOffsetByCRRT"
    /\ Len(f.tsrs) = 1
    /\ f.distance < 0
    /\ f.positionTolerance > 0
    /\ f.angularTolerance = 0
    /\ f.direction = <<3, 4, 0>>

\* The places where a planning call requests robot->getMutex().
LockRequestPcs == {"c_lock", "m_lock", "k_lock", "o_lock"}

\* C17: within one planning call the mutex is never requested by the
\* thread that already holds it, along every chain of calls between entry
\* points; so no planning call blocks forever on its own lock.
C17_NoSelfLock ==
    /\ f.pc \in LockRequestPcs => mutexOwner # Caller
    /\ f.pc \in {"t_snaploop", "t_loop"} => mutexOwner # Caller
    /\ f.pc # "blocked"

\* How the loops of planToTSR have ended, and what the Snap loop counts.
C18_Exits ==
    f.entry = "planToTSR" =>
      /\ f.trials <= f.maxNumTrials
      /\ f.delegations = 0 => f.snapSamples = f.snapCalls
      /\ f.pc = "t_timer" =>
            (f.snapSamples = maxSnapSamples \/ ~canSample(f))
      /\ f.pc \in {"t_restore", "done"} =>
            \/ TSRFound
            \/ /\ f.timerStarted
               /\ (f.elapsed >= f.timelimit * f.den \/ ~canSample(f))

\* C18: planToTSR always terminates, given that every sampler and strategy
\* call returns and that the generator cannot sample after maxNumTrials
\* draws.  A failed draw is not counted as a Snap attempt; the Snap loop
\* ends by a successful Snap, by maxSnapSamples counted attempts or by a
\* dry generator, the second loop by a trajectory, by the elapsed time
\* reaching timelimit or by a dry generator.
C18_Terminates ==
    /\ [](C18_Exits)
    /\ (f.entry = "planToTSR") ~> (f.pc = "done")

C18_Witness ==
    /\ f.pc = "done"
    /\ f.entry = "planToTSR"
    /\ f.maxNumTrials > maxSnapSamples
    /\ f.trials = f.maxNumTrials
    /\ f.snapSamples < f.trials
    /\ f.delegations >= 1
    /\ f.result = Null

\* C19: in planToTSR every strategy invocation, each planSnap call and each
\* delegated planToConfiguration call, plans from the configuration the
\* skeleton had when planToTSR was entered: the skeleton is back in that
\* state when a strategy is about to run, and the start state
\* planToConfiguration reads from the skeleton is the original one.
C19_PlansFromEntryState ==
    f.entry = "planToTSR" =>
      /\ f.plannedFrom \in {NoConfig, f.entryConfig}
      /\ f.pc \in {"t_snap_plan", "t_delegate", "c_lock", "c_saver",
                    "c_start"} => skel = f.entryConfig
      /\ f.pc \in {"c_snap", "c_ompl"} => f.cStartState = f.entryConfig

C19_Witness ==
    /\ f.entry = "planToTSR"
    /\ f.pc = "c_restore"
    /\ f.delegations = 2
    /\ f.omplCalls = 2
    /\ f.plannedFrom = f.entryConfig
    /\ skel # f.entryConfig

\* C20: planToConfiguration, planToConfigurations and planToTSR never
\* advance the caller's RNG: its state after the call is its state before,
\* and all the searches delegated to inside one planToTSR call seed their
\* samplers from the same RNG state.
C20_CallerRngUntouched ==
    f.entry \in {"planToConfiguration", "planToConfigurations",
                 "planToTSR"} =>
      /\ rng = f.entryRng
      /\ \A seed \in f.seeds : seed = f.entryRng
      /\ Cardinality(f.seeds) <= 1

C20_Witness ==
    /\ f.entry = "planToTSR"
    /\ f.pc = "done"
    /\ f.omplCalls = 2
    /\ f.seeds = {rng}

====
